---- MODULE Spec2Model ----
(***************************************************************************)
(* Three time zone clock (src/main.c).                                     *)
(*                                                                         *)
(* The host event loop calls handle_init once, handle_tick once a minute   *)
(* and timezone_layer_update for every layer that is marked dirty.  All    *)
(* callbacks run to completion, so each one is a single action.            *)
(***************************************************************************)
EXTENDS Integers, Sequences, FiniteSets, TLC

VARIABLES
    now,        \* static PblTm now: [tm_hour, tm_min]
    timezones,  \* static timezone_t timezones[]: index -> [name, offset]
    dirty,      \* timezones[i].layer is marked dirty
    frame,      \* what the last timezone_layer_update of panel i drew
    clock24h,   \* what the host answers to clock_is_24h_style()
    tick_time   \* the time the host delivered last (get_time or event->tick_time)

vars == <<now, timezones, dirty, frame, clock24h, tick_time>>

----------------------------------------------------------------------------
(* Program constants *)

NUM_TIMEZONES == 3

gmt_offset == 8 * 60

Panels == 0 .. (NUM_TIMEZONES - 1)

timezones_init ==
    [i \in Panels |->
        CASE i = 0 -> [name |-> "US Central", offset |-> (-6) * 60]
          [] i = 1 -> [name |-> "US Eastern", offset |-> (-5) * 60]
          [] i = 2 -> [name |-> "India",      offset |-> 5 * 60 + 30]]

----------------------------------------------------------------------------
(* Bounds of the model *)

\* zone offsets are drawn in quarter hours, from -MaxQuarters to +MaxQuarters
MaxQuarters == 56

Tm(h, m) == [tm_hour |-> h, tm_min |-> m]

AllTimes == {Tm(h, m) : h \in 0 .. 23, m \in 0 .. 59}

\* the times the host delivers (get_time and event->tick_time)
TickTimes == {Tm(2, 30), Tm(14, 5), Tm(23, 59), Tm(0, 0), Tm(12, 0), Tm(11, 29)}

ZoneOffsets == {15 * q : q \in (-MaxQuarters) .. MaxQuarters}

----------------------------------------------------------------------------
(* C integer arithmetic: / truncates toward zero, % takes the sign of the  *)
(* dividend (b > 0 here).                                                  *)

CDiv(a, b) == IF a >= 0 THEN a \div b ELSE -((-a) \div b)

CMod(a, b) == a - b * CDiv(a, b)

----------------------------------------------------------------------------
(* timezone_layer_update, lines 65-80: the zone's time computed in `now`   *)

\* DeltaMin with a remainder that takes the sign of the divisor
DeltaMin_FloorMod(offset) == (offset - gmt_offset) % 60

\* line 65: the minutes added to now.tm_min
DeltaMin(offset) == CMod(offset - gmt_offset, 60)

\* DeltaHour with the local offset added instead of subtracted
DeltaHour_SignSlip(offset) == CDiv(offset + gmt_offset, 60)

\* line 78: the hours added to now.tm_hour
DeltaHour(offset) == CDiv(offset - gmt_offset, 60)

\* CarryMin whose borrow forgets the hour
CarryMin_NoBorrow(t) ==
    IF t.tm_min > 60
      THEN Tm(t.tm_hour + 1, t.tm_min - 60)
      ELSE IF t.tm_min < 0
             THEN Tm(t.tm_hour, t.tm_min + 60)
             ELSE t

\* lines 67-76: carry or borrow one hour
CarryMin(t) ==
    IF t.tm_min > 60
      THEN Tm(t.tm_hour + 1, t.tm_min - 60)
      ELSE IF t.tm_min < 0
             THEN Tm(t.tm_hour - 1, t.tm_min + 60)
             ELSE t

\* WrapHour without line 80
WrapHour_NoUnderflow(h) == IF h > 24 THEN h - 24 ELSE h

\* lines 79-80: one step of wrapping at each end
WrapHour(h) ==
    LET h1 == IF h > 24 THEN h - 24 ELSE h
    IN  IF h1 < 0 THEN h1 + 24 ELSE h1

\* lines 65-80
ZoneTime(t, offset) ==
    LET t1 == Tm(t.tm_hour, t.tm_min + DeltaMin(offset))
        t2 == CarryMin(t1)
        h3 == t2.tm_hour + DeltaHour(offset)
    IN  Tm(WrapHour(h3), t2.tm_min)

\* lines 83-90: the format handed to string_format_time
TimeFormat(is24h) == IF is24h THEN "%H:%M" ELSE "%I:%M"

\* IsPm with noon counted as PM
IsPm_FromNoon(hour) == hour >= 12

\* line 92
IsPm(hour) == hour > 12

\* Restore without lines 93-94
Restore_Skipped(orig, cur) == cur

\* lines 93-94: now gets its hour and minute back
Restore(orig, cur) == Tm(orig.tm_hour, orig.tm_min)

\* line 100
FillColor(is_pm) == IF is_pm THEN "GColorBlack" ELSE "GColorWhite"

\* TextColor with the colours of line 100
TextColor_SameAsFill(is_pm) == IF is_pm THEN "GColorBlack" ELSE "GColorWhite"

\* line 101
TextColor(is_pm) == IF is_pm THEN "GColorWhite" ELSE "GColorBlack"

NoFrame ==
    [name |-> "", hour |-> -1, min |-> -1, fmt |-> "", is_pm |-> FALSE,
     fill |-> "", text |-> ""]

\* lines 58-106, run by the host for a dirty layer
timezone_layer_update(i) ==
    /\ dirty[i]
    /\ LET tz    == timezones[i]
           orig  == now
           zt    == ZoneTime(now, tz.offset)
           is_pm == IsPm(zt.tm_hour)
       IN  /\ now' = Restore(orig, zt)
           /\ frame' = [frame EXCEPT ![i] =
                  [name |-> tz.name, hour |-> zt.tm_hour, min |-> zt.tm_min,
                   fmt |-> TimeFormat(clock24h), is_pm |-> is_pm,
                   fill |-> FillColor(is_pm), text |-> TextColor(is_pm)]]
    /\ dirty' = [dirty EXCEPT ![i] = FALSE]
    /\ UNCHANGED <<timezones, clock24h, tick_time>>

\* MarkAllDirty whose loop stops after the first panel
MarkAllDirty_FirstOnly == [i \in Panels |-> i = 0]

\* line 113: layer_mark_dirty on every panel
MarkAllDirty == [i \in Panels |-> TRUE]

\* lines 108-114
handle_tick ==
    \E t \in TickTimes :
        /\ now' = t
        /\ tick_time' = t
        /\ dirty' = MarkAllDirty
        /\ UNCHANGED <<timezones, frame, clock24h>>

----------------------------------------------------------------------------
(* The watch face: handle_init, then ticks and redraws in any order.       *)

\* lines 116-139: get_time(&now), every layer marked dirty
Init ==
    /\ now \in TickTimes
    /\ tick_time = now
    /\ timezones = timezones_init
    /\ dirty = [i \in Panels |-> TRUE]
    /\ frame = [i \in Panels |-> NoFrame]
    /\ clock24h \in BOOLEAN

Next ==
    \/ handle_tick
    \/ \E i \in Panels : timezone_layer_update(i)

Spec == Init /\ [][Next]_vars

----------------------------------------------------------------------------
(* The offset calculation on its own: any local time, every panel set to   *)
(* one zone offset drawn from ZoneOffsets, then the redraws.               *)

InitCalc ==
    /\ now \in AllTimes
    /\ tick_time = now
    /\ \E z \in ZoneOffsets :
          timezones = [i \in Panels |-> [name |-> "zone", offset |-> z]]
    /\ dirty = [i \in Panels |-> TRUE]
    /\ frame = [i \in Panels |-> NoFrame]
    /\ clock24h \in BOOLEAN

NextCalc == \E i \in Panels : timezone_layer_update(i)

SpecCalc == InitCalc /\ [][NextCalc]_vars

----------------------------------------------------------------------------
(* Properties *)

\* panel i has been redrawn since it was last marked dirty
Drawn(i) == ~dirty[i]

Delta(i) == timezones[i].offset - gmt_offset

Shows(i, h, m) == frame[i].hour = h /\ frame[i].min = m

\* C1: whatever the local time and the zone offset, the zone time a redraw
\* computes has its hour in 0..23 and its minute in 0..59.
C1_ZoneTimeInRange ==
    \A i \in Panels :
        Drawn(i) => frame[i].hour \in 0 .. 23 /\ frame[i].min \in 0 .. 59

\* C2: a zone whose offset equals the local offset shows the local time:
\* the computed hour and minute are those of now.
C2_ZeroDeltaIsIdentity ==
    \A i \in Panels :
        (Drawn(i) /\ Delta(i) = 0) => Shows(i, now.tm_hour, now.tm_min)

C2_Witness ==
    \E i \in Panels : Drawn(i) /\ Delta(i) = 0 /\ now = Tm(23, 59)

\* C3: at local time 23:30 a zone one hour ahead shows 00:30; the hour wraps
\* to 0 and is not 24.
C3_ForwardWrap ==
    \A i \in Panels :
        (Drawn(i) /\ now = Tm(23, 30) /\ Delta(i) = 60) => Shows(i, 0, 30)

\* C4: at local time 00:10 a zone one hour behind shows 23:10; the hour
\* wraps to 23 and is not -1.
C4_BackwardWrap ==
    \A i \in Panels :
        (Drawn(i) /\ now = Tm(0, 10) /\ Delta(i) = -60) => Shows(i, 23, 10)

C4_Witness ==
    \E i \in Panels : Drawn(i) /\ now = Tm(0, 10) /\ Delta(i) = -60

C6_EndToEnd ==
    \A i \in Panels :
        (Drawn(i) /\ tick_time = Tm(14, 5) /\ gmt_offset = 480) =>
            /\ (timezones[i].name = "India" /\ timezones[i].offset = 330) =>
                   (frame[i].name = "India" /\ Delta(i) = -150
                      /\ Shows(i, 11, 35) /\ ~frame[i].is_pm)
            /\ (timezones[i].name = "US Eastern" /\ timezones[i].offset = -300) =>
                   (frame[i].name = "US Eastern" /\ Delta(i) = -780
                      /\ Shows(i, 1, 5) /\ ~frame[i].is_pm)

C6_Witness ==
    /\ tick_time = Tm(14, 5)
    /\ \E i \in Panels : Drawn(i) /\ timezones[i].name = "India"
                           /\ timezones[i].offset = 330
    /\ \E i \in Panels : Drawn(i) /\ timezones[i].name = "US Eastern"
                           /\ timezones[i].offset = -300

\* C7: a redraw leaves no change in the shared time: after any redraws, now
\* is the time stored by the last tick (or by handle_init).
C7_NowRestored == now = tick_time

C7_Witness ==
    \A i \in Panels :
        Drawn(i) /\ ~Shows(i, tick_time.tm_hour, tick_time.tm_min)

\* C8: a redraw fills the panel black exactly when its PM flag is true and
\* white otherwise, and its text colour is the other one of the two.
C8_InverseVideo ==
    \A i \in Panels :
        Drawn(i) =>
            /\ frame[i].fill = (IF frame[i].is_pm THEN "GColorBlack" ELSE "GColorWhite")
            /\ frame[i].text = (IF frame[i].is_pm THEN "GColorWhite" ELSE "GColorBlack")

C8_Witness ==
    /\ \E i \in Panels : Drawn(i) /\ frame[i].is_pm
    /\ \E i \in Panels : Drawn(i) /\ ~frame[i].is_pm

\* C9: whatever ticks and redraws came before and in whatever order, a panel
\* that is not waiting for a redraw shows the time of the most recent tick
\* (or of handle_init) moved by its own offset, and by nothing else.
C9_ShowsLastTick ==
    \A i \in Panels :
        Drawn(i) =>
            LET zt == ZoneTime(tick_time, timezones[i].offset)
            IN  Shows(i, zt.tm_hour, zt.tm_min)

\* a tick came after panel 0 was drawn; panels 2 and 1 have been redrawn
\* since, panel 0 still shows the time of an earlier tick
C9_Witness ==
    /\ dirty[0] /\ frame[0] # NoFrame
    /\ ~Shows(0, ZoneTime(tick_time, timezones[0].offset).tm_hour,
                 ZoneTime(tick_time, timezones[0].offset).tm_min)
    /\ Drawn(1) /\ Drawn(2)

\* C10: for the three configured zones and the local offset +480, at every
\* local time the computed hour and minute are those of
\* (minutes of the local time + zone offset - local offset) modulo 1440.
C10_MatchesReference ==
    \A i \in Panels :
        (Drawn(i) /\ gmt_offset = 480
           /\ timezones[i].offset \in {timezones_init[j].offset : j \in Panels}) =>
            LET ref == (60 * now.tm_hour + now.tm_min + Delta(i)) % 1440
            IN  Shows(i, ref \div 60, ref % 60)

C10_Witness ==
    \E i \in Panels :
        /\ Drawn(i)
        /\ timezones[i].offset = 330
        /\ now = Tm(0, 10)
        /\ Shows(i, 21, 40)

====
